---- MODULE Spec2Model ----
(***************************************************************************)
(* A model of src/server.py: the path permission tree (PathConfig,         *)
(* AuthConfig), the request handlers (SimpleHTTPFileServer and             *)
(* AuthSimpleHTTPFileServer) and the listener threads that share one       *)
(* listening socket.                                                       *)
(*                                                                         *)
(* Python values.  A str is held as a sequence of tokens: a separator      *)
(* character ("/" in a path, ":" in a credential text) is a token of its   *)
(* own, and a maximal run of other characters is one token, so no two      *)
(* neighbouring tokens are both separator-free.  "a//b" is                 *)
(* <<"a", "/", "/", "b">>.  What split() returns (a path segment, a user   *)
(* name, a password) is a TLA+ string.  A dict is a function, {} is <<>>.  *)
(* True, False and None are the strings below (TLC compares only values    *)
(* of one type).                                                           *)
(***************************************************************************)
EXTENDS Naturals, Sequences, FiniteSets, TLC

VARIABLES
    auth_config,    \* the AuthConfig object: [root, users] (None: no access config)
    phase,          \* where the run of the policy is: "init", "serving", "answered", "crashed"
    query,          \* the last call of check_path_for_perm: its arguments and what it returned
    handler_class,  \* the RequestHandlerClass ListenerThread.run gives its server
    fs,             \* the storage directory: node (tuple of names) -> [kind, data]
    last,           \* the last request handled, with its response
    threads,        \* ListenerThread -> "unstarted", "select", "accept" or "handle"
    request,        \* ListenerThread -> the connection it accepted and is handling (0: none)
    accept_queue,   \* the connections waiting on the listening socket, oldest first
    conn,           \* connection -> "unsent", "queued", "accepted" or "closed"
    handled,        \* connection -> the ListenerThreads that handled it, in order
    client,         \* connection -> "sends" or "stalls": whether its client sends a whole request
    main,           \* the statement setup_and_start_http_server is at
    sock,           \* the listening socket: "none" or "listening"
    process,        \* [state, status]: "running", or "exited" with the exit status
    config_file,    \* --access_config: [given, exists, source]
    log_thread,     \* the PrintThread: [started, item], item the line it took off the queue
    log_queue,      \* PrintThread.queue, oldest line first
    sink,           \* the lines written to log_file, in the order of the writes
    calls,          \* the add_path_config calls made so far, in order
    inflight        \* ListenerThread -> the request its handler is in the middle of

authVars == <<auth_config, phase, query>>
httpVars == <<handler_class, fs, last>>
acceptVars == <<threads, request, accept_queue, conn, handled, client>>
startVars == <<main, sock, process, config_file>>
logVars == <<log_thread, log_queue, sink>>

vars == <<auth_config, phase, query, handler_class, fs, last,
          threads, request, accept_queue, conn, handled, client,
          main, sock, process, config_file, log_thread, log_queue, sink,
          calls, inflight>>

True == "True"
False == "False"
None == "None"

\* the variables of the listener threads, where no thread runs
NoThreads ==
    /\ threads = <<>>
    /\ request = <<>>
    /\ accept_queue = <<>>
    /\ conn = <<>>
    /\ handled = <<>>
    /\ client = <<>>

\* a configuration file argument: given is whether --access_config was passed,
\* exists whether a file is there, source what json.load(open(...)) finds
ConfigFile(given, exists_, source) == [given |-> given, exists |-> exists_, source |-> source]
NoSource == [parse |-> "error", doc |-> <<>>]

Running == [state |-> "running", status |-> 0]
Exited(status) == [state |-> "exited", status |-> status]

\* the process once setup_and_start_http_server waits in join(), with an idle
\* log; where the startup is not followed, the command line is not either
Started ==
    /\ main = "join"
    /\ sock = "listening"
    /\ process = Running
    /\ config_file = ConfigFile(FALSE, FALSE, NoSource)
    /\ log_thread = [started |-> TRUE, item |-> <<>>]
    /\ log_queue = <<>>
    /\ sink = <<>>

NoCalls == calls = <<>>
NoInflight == inflight = <<>>

-----------------------------------------------------------------------------
(* Bounds of the model *)

\* the number of ListenerThreads (--threads), and of connections clients open
NumThreads == 3

\* the largest number of entries in the "paths" list of a configuration
MaxRules == 2

-----------------------------------------------------------------------------
(* str and dict helpers *)

\* txt.split(sep)
RECURSIVE split(_, _)
split(txt, sep) ==
    IF txt = <<>> THEN <<"">>
    ELSE LET rest == split(Tail(txt), sep) IN
         IF Head(txt) = sep THEN <<"">> \o rest
         ELSE <<Head(txt)>> \o Tail(rest)

\* d[k] = v
dict_set(d, k, v) == [x \in DOMAIN d \cup {k} |-> IF x = k THEN v ELSE d[x]]

-----------------------------------------------------------------------------
(* PathConfig and AuthConfig *)

\* PathConfig.__init__ ('/' never occurs in a segment that split('/') returned)
PathConfig(filename) == [filename |-> filename, perms |-> <<>>, children |-> <<>>]

\* AuthConfig.__init__
AuthConfig == [root |-> PathConfig(""), users |-> <<>>]

\* add_path_config that adds the permissions to those the user has at the node
RECURSIVE add_path_items_union(_, _, _, _)
add_path_items_union(p, path_items, user, perms) ==
    IF path_items = <<>>
    THEN [p EXCEPT !.perms =
            dict_set(p.perms, user,
                     IF user \in DOMAIN p.perms THEN p.perms[user] \cup perms ELSE perms)]
    ELSE LET i == Head(path_items)
             child == IF i \in DOMAIN p.children THEN p.children[i] ELSE PathConfig(i)
         IN [p EXCEPT !.children =
                dict_set(p.children, i,
                         add_path_items_union(child, Tail(path_items), user, perms))]

\* the loop of add_path_config from node p on, and the assignment that ends it
RECURSIVE add_path_items(_, _, _, _)
add_path_items(p, path_items, user, perms) ==
    IF path_items = <<>> THEN [p EXCEPT !.perms = dict_set(p.perms, user, perms)]
    ELSE LET i == Head(path_items)
             child == IF i \in DOMAIN p.children THEN p.children[i] ELSE PathConfig(i)
         IN [p EXCEPT !.children =
                dict_set(p.children, i, add_path_items(child, Tail(path_items), user, perms))]

path_items_of(path) == SelectSeq(split(path, "/"), LAMBDA p : p \notin {"", ".", ".."})

add_path_config(ac, path, user, perms) ==
    [ac EXCEPT !.root = add_path_items(ac.root, path_items_of(path), user, perms)]

\* load_config, the loop over config['paths']: a missing key raises KeyError
\* before add_path_config is called for that entry
RECURSIVE load_paths(_, _)
load_paths(ac, config_paths) ==
    IF config_paths = <<>> THEN [ac |-> ac, raised |-> FALSE]
    ELSE LET config_path == Head(config_paths) IN
         IF ~({"path", "user", "perms"} \subseteq DOMAIN config_path)
         THEN [ac |-> ac, raised |-> TRUE]
         ELSE load_paths(add_path_config(ac, config_path.path, config_path.user,
                                         config_path.perms),
                         Tail(config_paths))

\* load_config, the loop over config['users']
RECURSIVE load_users(_, _)
load_users(ac, config_users) ==
    IF config_users = <<>> THEN [ac |-> ac, raised |-> FALSE]
    ELSE LET config_user == Head(config_users) IN
         IF ~({"user", "psw"} \subseteq DOMAIN config_user)
         THEN [ac |-> ac, raised |-> TRUE]
         ELSE load_users([ac EXCEPT !.users = dict_set(ac.users, config_user.user,
                                                       config_user.psw)],
                         Tail(config_users))

\* load_config's try block.  A configuration source is [parse, doc]: parse is
\* "ok" when json.load(open(...)) returns, and doc is then the dict it returns.
load_config_try(ac, source) ==
    IF source.parse # "ok" THEN [ac |-> ac, raised |-> TRUE]
    ELSE IF "paths" \notin DOMAIN source.doc THEN [ac |-> ac, raised |-> TRUE]
    ELSE LET p == load_paths(ac, source.doc.paths) IN
         IF p.raised THEN p
         ELSE IF "users" \notin DOMAIN source.doc THEN [ac |-> p.ac, raised |-> TRUE]
         ELSE load_users(p.ac, source.doc.users)

\* load_config: the except clause calls self.log_write, which AuthConfig does
\* not define, so the handler itself raises AttributeError
load_config(ac, source) ==
    LET t == load_config_try(ac, source) IN
    [ac |-> t.ac, raised |-> IF t.raised THEN "AttributeError" ELSE None]

\* check_perm with the '*' entry looked up before the user's own
check_perm_star_first(perms, user, perm) ==
    IF "*" \in DOMAIN perms THEN (IF perm \in perms["*"] THEN True ELSE False)
    ELSE IF user \in DOMAIN perms THEN (IF perm \in perms[user] THEN True ELSE False)
    ELSE None

check_perm(perms, user, perm) ==
    IF user \in DOMAIN perms THEN (IF perm \in perms[user] THEN True ELSE False)
    ELSE IF "*" \in DOMAIN perms THEN (IF perm \in perms["*"] THEN True ELSE False)
    ELSE None

\* combine_perm that grants only what both levels grant
combine_perm_and(prev, next) ==
    IF next = None THEN prev
    ELSE IF prev = True /\ next = True THEN True ELSE False

combine_perm(prev, next) == IF next = None THEN prev ELSE next

\* resolve_user that keeps the name of an unknown user
resolve_user_keep(ac, user) == user

\* check_path_for_perm, lines 271-272: an unknown user becomes '*'
resolve_user(ac, user) == IF user \notin DOMAIN ac.users THEN "*" ELSE user

\* psw_rejected that compares only a password that was sent
psw_rejected_if_sent(ac, user, psw) ==
    user \in DOMAIN ac.users /\ psw # None /\ ac.users[user] # psw

\* check_path_for_perm, line 273: a known user with another password
psw_rejected(ac, user, psw) == user \in DOMAIN ac.users /\ ac.users[user] # psw

\* check_path_for_perm, the loop over items from node p on; acc is
\* [result, checked]: the result so far and what check_perm returned at each
\* node visited so far
RECURSIVE walk_items(_, _, _, _, _)
walk_items(p, items, user, perm, acc) ==
    IF items = <<>> THEN acc
    ELSE IF Head(items) \notin DOMAIN p.children THEN acc
    ELSE LET c == p.children[Head(items)]
             d == check_perm(c.perms, user, perm)
         IN walk_items(c, Tail(items), user, perm,
                       [result |-> combine_perm(acc.result, d),
                        checked |-> Append(acc.checked, d)])

\* walk_path that starts from a denial
walk_path_deny(ac, path, perm, user) ==
    LET d == check_perm(ac.root.perms, user, perm) IN
    walk_items(ac.root, split(path, "/"), user, perm,
               [result |-> combine_perm(False, d), checked |-> <<d>>])

\* walk_path over the segments that add_path_config would keep
walk_path_normalised(ac, path, perm, user) ==
    LET d == check_perm(ac.root.perms, user, perm) IN
    walk_items(ac.root, path_items_of(path), user, perm,
               [result |-> combine_perm(True, d), checked |-> <<d>>])

\* check_path_for_perm after the credentials were accepted (lines 276-289)
walk_path(ac, path, perm, user) ==
    LET d == check_perm(ac.root.perms, user, perm) IN
    walk_items(ac.root, split(path, "/"), user, perm,
               [result |-> combine_perm(True, d), checked |-> <<d>>])

\* check_path_for_perm, with the decisions of the nodes it visited
check_path_trace(ac, path, perm, user, psw) ==
    IF psw_rejected(ac, user, psw) THEN [result |-> False, checked |-> <<>>]
    ELSE walk_path(ac, path, perm, resolve_user(ac, user))

check_path_for_perm(ac, path, perm, user, psw) ==
    check_path_trace(ac, path, perm, user, psw).result

\* the tree from node p on after a walk that makes the nodes it does not find
RECURSIVE touch_items(_, _)
touch_items(p, items) ==
    IF items = <<>> THEN p
    ELSE LET i == Head(items)
             child == IF i \in DOMAIN p.children THEN p.children[i] ELSE PathConfig(i)
         IN [p EXCEPT !.children = dict_set(p.children, i, touch_items(child, Tail(items)))]

\* a check_path_for_perm that, like add_path_config, makes the nodes of the
\* path as it walks
check_path_for_perm_creating(ac, path, perm, user, psw) ==
    IF psw_rejected(ac, user, psw) THEN ac
    ELSE [ac EXCEPT !.root = touch_items(ac.root, split(path, "/"))]

\* the AuthConfig after check_path_for_perm: the method and check_perm bind
\* the local names user, p, items and result only, and assign to no attribute
\* and to no item of a dict
check_path_for_perm_self(ac, path, perm, user, psw) == ac

-----------------------------------------------------------------------------
(* The policy on its own: one configuration is loaded into a fresh           *)
(* AuthConfig, then check_path_for_perm is called once.                      *)

Perms == {"r", "w", "l"}

RulePaths == { <<"/">>,
               <<"/", "a">>,
               <<"a", "/", ".", "/", "b">>,
               <<"/", "a", "/", "b", "/", "c">> }
RuleUsers == {"*", "u", "v"}
RulePerms == { {"r"}, {"w", "l"} }

PathEntries ==
    [path : RulePaths, user : RuleUsers, perms : RulePerms]

UserLists == { <<>>,
               << [user |-> "u", psw |-> "p"] >>,
               << [user |-> "u", psw |-> "q"], [user |-> "*", psw |-> "q"],
                  [user |-> "u", psw |-> "p"] >> }

PathLists == UNION { [1..n -> PathEntries] : n \in 0..MaxRules }

GoodSources ==
    { [parse |-> "ok", doc |-> [paths |-> ps, users |-> us]] :
        ps \in PathLists, us \in UserLists }

\* sources load_config cannot read to the end
BadSources ==
    { [parse |-> "error", doc |-> <<>>],
      [parse |-> "ok", doc |-> [users |-> <<>>]],
      [parse |-> "ok",
       doc |-> [paths |-> << [path |-> <<"/", "a">>, user |-> "*", perms |-> {}] >>]],
      [parse |-> "ok",
       doc |-> [paths |-> << [path |-> <<"/", "a">>, user |-> "*", perms |-> {}],
                             [path |-> <<"/">>, user |-> "*"] >>,
                users |-> <<>>]],
      [parse |-> "ok",
       doc |-> [paths |-> <<>>,
                users |-> << [user |-> "u", psw |-> "p"], [user |-> "v"] >>]] }

Sources == GoodSources \cup BadSources

QueryPaths == { <<".">>,
                <<"a", "/", "b">>,
                <<"a", "/", "b", "/", "c">>,
                <<"a", "/", "x", "/", "c">>,
                <<"/", "a", "/", "b">> }
QueryUsers == {"*", "u", "v"}
QueryPsws == {None, "p", "q"}

NoQuery == [path |-> <<>>, perm |-> None, user |-> None, psw |-> None,
            result |-> None, checked |-> <<>>]

\* before any request
NoRequest ==
    [req |-> [method |-> None, path |-> <<>>,
              authorization |-> [present |-> FALSE, scheme |-> None, credentials |-> None],
              content |-> None],
     resp |-> [status |-> 0, www_authenticate |-> None, location |-> None,
               body |-> [kind |-> "none", data |-> None]],
     checked |-> None, asked_perm |-> None, caught |-> None, raised |-> None]

AuthInit ==
    /\ auth_config = AuthConfig
    /\ phase = "init"
    /\ query = NoQuery
    /\ handler_class = None
    /\ fs = <<>>
    /\ last = NoRequest
    /\ NoThreads
    /\ Started /\ NoCalls /\ NoInflight

\* setup_and_start_http_server, lines 453-454: the configuration is loaded; an
\* exception that leaves load_config ends the process
LoadConfig ==
    /\ phase = "init"
    /\ \E source \in Sources :
        LET r == load_config(auth_config, source) IN
        /\ auth_config' = r.ac
        /\ phase' = IF r.raised = None THEN "serving" ELSE "crashed"
    /\ UNCHANGED <<query, httpVars, acceptVars, startVars, logVars, calls, inflight>>

\* one call of check_path_for_perm, for a path of paths
CheckPathIn(paths) ==
    /\ phase = "serving"
    /\ \E path \in paths, perm \in Perms, user \in QueryUsers, psw \in QueryPsws :
        LET t == check_path_trace(auth_config, path, perm, user, psw) IN
        /\ query' = [path |-> path, perm |-> perm, user |-> user, psw |-> psw,
                     result |-> check_path_for_perm(auth_config, path, perm, user, psw),
                     checked |-> t.checked]
        /\ auth_config' = check_path_for_perm_self(auth_config, path, perm, user, psw)
    /\ phase' = "answered"
    /\ UNCHANGED <<httpVars, acceptVars, startVars, logVars, calls, inflight>>

CheckPath == CheckPathIn(QueryPaths)

AuthNext ==
    \/ LoadConfig
    \/ CheckPath

SpecAuth == AuthInit /\ [][AuthNext]_vars

-----------------------------------------------------------------------------
(* What the claims about the policy say, stated from the tree itself *)

\* whether following segs from node p only meets existing nodes
RECURSIVE HasNode(_, _)
HasNode(p, segs) ==
    \/ segs = <<>>
    \/ /\ Head(segs) \in DOMAIN p.children
       /\ HasNode(p.children[Head(segs)], Tail(segs))

\* the node that segs names from node p
RECURSIVE NodeAt(_, _)
NodeAt(p, segs) ==
    IF segs = <<>> THEN p ELSE NodeAt(p.children[Head(segs)], Tail(segs))

Prefix(s, k) == SubSeq(s, 1, k)

\* the segments of the last query, and the nodes of its chain: ChainNode(k)
\* for k in Chain is the node its first k segments name (the root for k = 0)
QueryItems == split(query.path, "/")
Chain == { k \in 0..Len(QueryItems) : HasNode(auth_config.root, Prefix(QueryItems, k)) }
ChainNode(k) == NodeAt(auth_config.root, Prefix(QueryItems, k))

Accepted ==
    \/ query.user \notin DOMAIN auth_config.users
    \/ auth_config.users[query.user] = query.psw

ResolvedUser == IF query.user \in DOMAIN auth_config.users THEN query.user ELSE "*"

HasEntry(node, user) == user \in DOMAIN node.perms \/ "*" \in DOMAIN node.perms

\* the decision of a node that has an entry for user or for '*'
Grants(node, user, perm) ==
    IF user \in DOMAIN node.perms THEN perm \in node.perms[user]
    ELSE perm \in node.perms["*"]

\* the decision of the deepest node of the chain with an entry for user or '*'
DeepestGrants(user) ==
    LET ks == { k \in Chain : HasEntry(ChainNode(k), user) } IN
    IF ks = {} THEN TRUE
    ELSE LET k == CHOOSE x \in ks : \A y \in ks : y <= x IN
         Grants(ChainNode(k), user, query.perm)

PyBool(b) == IF b THEN True ELSE False

ABC == <<"a", "/", "b", "/", "c">>

\* C1: when the credentials are accepted, check_path_for_perm returns the
\* decision of the deepest node, on the chain of existing nodes that the
\* query path's segments name from the root, that has an entry for the
\* resolved user or for '*', and True when no node of the chain has one.
C1_DeepestRuleWins ==
    (phase = "answered" /\ Accepted) =>
        query.result = PyBool(DeepestGrants(ResolvedUser))

\* a denial for u at /a/b and a grant for u at /a/b/c, asked for a/b/c
C1_Witness ==
    /\ phase = "answered"
    /\ query.path = ABC /\ query.user = "u" /\ Accepted
    /\ "u" \in DOMAIN auth_config.users
    /\ Chain = 0..3
    /\ "u" \in DOMAIN ChainNode(2).perms /\ query.perm \notin ChainNode(2).perms["u"]
    /\ "u" \in DOMAIN ChainNode(3).perms /\ query.perm \in ChainNode(3).perms["u"]
    /\ query.result = True

\* C2: a user of the users map with a password other than the stored one is
\* refused, whatever the path, the permission and the rules are.
C2_CredentialRejection ==
    (/\ phase = "answered"
     /\ query.user \in DOMAIN auth_config.users
     /\ auth_config.users[query.user] # query.psw) => query.result = False

\* refused although the rules grant the permission to that very user
C2_Witness ==
    /\ phase = "answered"
    /\ query.user \in DOMAIN auth_config.users
    /\ auth_config.users[query.user] # query.psw
    /\ \E k \in Chain : /\ query.user \in DOMAIN ChainNode(k).perms
                        /\ \A j \in Chain : j > k => ~HasEntry(ChainNode(j), query.user)
    /\ DeepestGrants(query.user)
    /\ query.result = False

\* what the claim says check_perm returns at a node
NodeDecision(node, user, perm) ==
    IF user \in DOMAIN node.perms THEN PyBool(perm \in node.perms[user])
    ELSE IF "*" \in DOMAIN node.perms THEN PyBool(perm \in node.perms["*"])
    ELSE None

\* C3: at every node the walk visits, check_perm returns the decision of the
\* user's own entry when there is one, else that of the '*' entry, and None
\* only when the node has neither.
C3_WildcardFallback ==
    (phase = "answered" /\ Accepted) =>
        /\ DOMAIN query.checked = { k + 1 : k \in Chain }
        /\ \A k \in Chain :
              query.checked[k + 1] = NodeDecision(ChainNode(k), ResolvedUser, query.perm)

\* a visited node where the user's entry and the '*' entry disagree
C3_Witness ==
    /\ phase = "answered" /\ Accepted
    /\ ResolvedUser # "*"
    /\ \E k \in Chain :
          LET perms == ChainNode(k).perms IN
          /\ ResolvedUser \in DOMAIN perms /\ "*" \in DOMAIN perms
          /\ (query.perm \in perms[ResolvedUser]) # (query.perm \in perms["*"])
          /\ query.checked[k + 1] = PyBool(query.perm \in perms[ResolvedUser])
    /\ \E k \in Chain : query.checked[k + 1] = None

\* the decision of the deepest node of the chain that has a '*' entry
DeepestStarGrants ==
    LET ks == { k \in Chain : "*" \in DOMAIN ChainNode(k).perms } IN
    IF ks = {} THEN TRUE
    ELSE LET k == CHOOSE x \in ks : \A y \in ks : y <= x IN
         query.perm \in ChainNode(k).perms["*"]

\* C4: a user that is not in the users map gets, with any password, what the
\* rules give to '*': entries under the user's own name are not applied and
\* no password is compared; when '*' is no key of the users map this is what
\* the call with user '*' and no password returns.
C4_AnonymousFallback ==
    (phase = "answered" /\ query.user \notin DOMAIN auth_config.users) =>
        /\ query.result = PyBool(DeepestStarGrants)
        /\ "*" \notin DOMAIN auth_config.users =>
              query.result = check_path_for_perm(auth_config, query.path, query.perm,
                                                 "*", None)

\* an unknown user, with a password, whose own entry at the deepest node says
\* the opposite of what '*' gets
C4_Witness ==
    /\ phase = "answered"
    /\ query.user = "v" /\ query.psw = "p"
    /\ "u" \in DOMAIN auth_config.users
    /\ \E k \in Chain :
          /\ "v" \in DOMAIN ChainNode(k).perms
          /\ \A j \in Chain : j > k => ChainNode(j).perms = <<>>
          /\ (query.perm \in ChainNode(k).perms["v"]) # DeepestStarGrants
    /\ \E k \in Chain : "*" \in DOMAIN ChainNode(k).perms
    /\ query.result = PyBool(DeepestStarGrants)

NoRuleOnChain == \A k \in Chain : ChainNode(k).perms = <<>>

\* C5 as stated: with no rule on the chain the answer is True for every user
\* argument and every password.
C5_DefaultAllowAnyPassword ==
    (phase = "answered" /\ NoRuleOnChain) => query.result = True

\* C5: with no rule on any node of the chain the answer is True for every
\* permission and every caller whose credentials are accepted (an unknown
\* user, or a known user with the stored password).
C5_DefaultAllow ==
    (phase = "answered" /\ NoRuleOnChain /\ Accepted) => query.result = True

\* a known user with the stored password, rules elsewhere in the tree
C5_Witness ==
    /\ phase = "answered" /\ NoRuleOnChain
    /\ query.user \in DOMAIN auth_config.users /\ Accepted
    /\ auth_config.root.children # <<>>
    /\ Len(QueryItems) > 1
    /\ query.result = True

-----------------------------------------------------------------------------
(* The storage directory *)

Front(s) == SubSeq(s, 1, Len(s) - 1)
IsPrefix(a, b) == Len(a) <= Len(b) /\ SubSeq(b, 1, Len(a)) = a

\* sep.join(items)
RECURSIVE join(_, _)
join(items, sep) ==
    IF items = <<>> THEN <<>>
    ELSE IF Len(items) = 1 THEN <<Head(items)>>
    ELSE <<Head(items), sep>> \o join(Tail(items), sep)

Dir == [kind |-> "dir", data |-> None]
File(data) == [kind |-> "file", data |-> data]

\* posixpath.normpath of an absolute path, as a list of names
RECURSIVE normpath_items(_, _)
normpath_items(items, stack) ==
    IF items = <<>> THEN stack
    ELSE IF Head(items) \in {"", "."} THEN normpath_items(Tail(items), stack)
    ELSE IF Head(items) = ".." THEN normpath_items(Tail(items), Front(stack))
    ELSE normpath_items(Tail(items), Append(stack, Head(items)))

\* SimpleHTTPRequestHandler.translate_path: the node under the current
\* directory that the request path names, and whether the translated path
\* ends with '/'
translate_path(path) ==
    [node |-> normpath_items(split(path, "/"), <<>>),
     slash |-> path # <<>> /\ path[Len(path)] = "/"]

\* os.getcwd() raises once the current directory has been removed
cwd_gone(f) == <<>> \notin DOMAIN f

isdir(f, p) == p.node \in DOMAIN f /\ f[p.node].kind = "dir"
exists(f, p) == p.node \in DOMAIN f /\ (p.slash => f[p.node].kind = "dir")

\* os.path.dirname of a translated path
dirname(p) ==
    IF p.slash THEN [node |-> p.node, slash |-> FALSE]
    ELSE [node |-> Front(p.node), slash |-> FALSE]

\* os.makedirs raises when a name on the way is a file
makedirs_ok(f, p) ==
    \A k \in 1..Len(p.node) :
        SubSeq(p.node, 1, k) \in DOMAIN f => f[SubSeq(p.node, 1, k)].kind = "dir"
makedirs(f, p) ==
    [n \in DOMAIN f \cup { SubSeq(p.node, 1, k) : k \in 1..Len(p.node) } |->
        IF n \in DOMAIN f THEN f[n] ELSE Dir]

\* open(path, 'wb') raises for a path that ends with '/', under a parent that
\* is no directory, and on a directory
open_wb_ok(f, p) ==
    /\ ~p.slash
    /\ p.node # <<>>
    /\ Front(p.node) \in DOMAIN f /\ f[Front(p.node)].kind = "dir"
    /\ ~isdir(f, p)

\* open(path, 'rb') raises OSError unless the path names a file
open_rb_ok(f, p) == ~p.slash /\ p.node \in DOMAIN f /\ f[p.node].kind = "file"

rmtree(f, p) == [n \in { m \in DOMAIN f : ~IsPrefix(p.node, m) } |-> f[n]]
remove(f, p) == [n \in DOMAIN f \ {p.node} |-> f[n]]

\* every order in which find may print the members of S
orderings(S) ==
    { s \in [1..Cardinality(S) -> S] : \A i, j \in DOMAIN s : i # j => s[i] # s[j] }

\* _list_files: the lines "./<relative path>" that find prints for the regular
\* files under the directory, in find's order; output.strip().split('\n') of
\* an empty output is ['']
list_files(f, p) ==
    LET found == { n \in DOMAIN f : f[n].kind = "file" /\ IsPrefix(p.node, n) }
        line(n) == <<".", "/">> \o join(SubSeq(n, Len(p.node) + 1, Len(n)), "/")
    IN IF found = {} THEN { << <<>> >> }
       ELSE { [i \in DOMAIN s |-> line(s[i])] : s \in orderings(found) }

-----------------------------------------------------------------------------
(* Responses *)

OK == 200
MOVED_PERMANENTLY == 301
UNAUTHORIZED == 401
NOT_FOUND == 404
METHOD_NOT_ALLOWED == 405
\* the status of a request that got no response
NoStatus == 0

NoBody == [kind |-> "none", data |-> None]
Response(status, body) ==
    [status |-> status, www_authenticate |-> None, location |-> None, body |-> body]
NoResponse == Response(NoStatus, NoBody)

\* BaseHTTPRequestHandler.send_error: the error page is left out for HEAD
send_error(req, code) ==
    Response(code, IF req.method = "HEAD" THEN NoBody
                   ELSE [kind |-> "error", data |-> None])

\* what a handler did: the storage after it, the response, the exception that
\* left it, and what check_auth_impl did for it
Outcome(f, resp, raised) ==
    [fs |-> f, resp |-> resp, raised |-> raised,
     checked |-> None, asked_perm |-> None, caught |-> None]

-----------------------------------------------------------------------------
(* SimpleHTTPFileServer *)

\* send_head: the responses it may send; the body is what the file object it
\* returns holds
send_head(f, req) ==
    LET path == translate_path(req.path) IN
    IF isdir(f, path) THEN
        IF ~path.slash
        THEN { [Response(MOVED_PERMANENTLY, NoBody) EXCEPT
                   !.location = req.path \o <<"/">>] }
        ELSE { Response(OK, [kind |-> "listing", data |-> l]) : l \in list_files(f, path) }
    ELSE IF ~open_rb_ok(f, path) THEN { send_error(req, NOT_FOUND) }
    ELSE { Response(OK, [kind |-> "file", data |-> f[path.node].data]) }

\* do_GET: SimpleHTTPRequestHandler.do_GET copies the file object to the client
do_GET(f, req) ==
    IF cwd_gone(f) THEN { Outcome(f, NoResponse, "FileNotFoundError") }
    ELSE { Outcome(f, r, None) : r \in send_head(f, req) }

\* do_HEAD: SimpleHTTPRequestHandler.do_HEAD closes the file object
do_HEAD(f, req) ==
    IF cwd_gone(f) THEN { Outcome(f, NoResponse, "FileNotFoundError") }
    ELSE { Outcome(f, [r EXCEPT !.body = NoBody], None) : r \in send_head(f, req) }

do_PUT(f, req) ==
    LET path == translate_path(req.path)
        parent_dir == dirname(path)
    IN
    IF cwd_gone(f) THEN { Outcome(f, NoResponse, "FileNotFoundError") }
    ELSE IF isdir(f, path) THEN { Outcome(f, send_error(req, METHOD_NOT_ALLOWED), None) }
    ELSE IF ~exists(f, parent_dir) /\ ~makedirs_ok(f, parent_dir)
         THEN { Outcome(f, send_error(req, METHOD_NOT_ALLOWED), None) }
    ELSE LET f1 == IF ~exists(f, parent_dir) THEN makedirs(f, parent_dir) ELSE f IN
         IF req.content = None \/ ~open_wb_ok(f1, path)
         THEN { Outcome(f1, send_error(req, METHOD_NOT_ALLOWED), None) }
         ELSE { Outcome(dict_set(f1, path.node, File(req.content)),
                        Response(OK, NoBody), None) }

do_DELETE(f, req) ==
    LET path == translate_path(req.path) IN
    IF cwd_gone(f) THEN { Outcome(f, NoResponse, "FileNotFoundError") }
    ELSE IF ~exists(f, path) THEN { Outcome(f, send_error(req, NOT_FOUND), None) }
    ELSE IF isdir(f, path) THEN { Outcome(rmtree(f, path), Response(OK, NoBody), None) }
    ELSE { Outcome(remove(f, path), Response(OK, NoBody), None) }

-----------------------------------------------------------------------------
(* AuthSimpleHTTPFileServer *)

\* the str that a text after the first colon is
str_of(tokens) ==
    IF tokens = <<>> THEN ""
    ELSE IF Len(tokens) = 1 THEN tokens[1]
    ELSE IF tokens = <<"p", ":", "q">> THEN "p:q"
    ELSE "?"

\* decode_http_auth_password that splits at the first colon only
decode_at_first_colon(txt) ==
    IF txt.b64 = "padding"
    THEN [raised |-> "binascii.Error", value |-> None, user |-> None, psw |-> None]
    ELSE IF txt.b64 = "notutf8"
    THEN [raised |-> "UnicodeDecodeError", value |-> None, user |-> None, psw |-> None]
    ELSE LET items == split(txt.text, ":")
             first == CHOOSE i \in DOMAIN txt.text : /\ txt.text[i] = ":"
                                                     /\ \A j \in 1..(i - 1) : txt.text[j] # ":"
         IN
         IF Len(items) < 2
         THEN [raised |-> None, value |-> None, user |-> None, psw |-> None]
         ELSE [raised |-> None, value |-> "pair", user |-> items[1],
               psw |-> str_of(SubSeq(txt.text, first + 1, Len(txt.text)))]

\* decode_http_auth_password.  The value after 'Basic ' is [b64, text]: b64
\* is "ok" when b64decode and decode('UTF-8') return, and text is then the
\* decoded text.
decode_http_auth_password(txt) ==
    IF txt.b64 = "padding"
    THEN [raised |-> "binascii.Error", value |-> None, user |-> None, psw |-> None]
    ELSE IF txt.b64 = "notutf8"
    THEN [raised |-> "UnicodeDecodeError", value |-> None, user |-> None, psw |-> None]
    ELSE LET items == split(txt.text, ":") IN
         IF Len(items) # 2
         THEN [raised |-> None, value |-> None, user |-> None, psw |-> None]
         ELSE [raised |-> None, value |-> "pair", user |-> items[1], psw |-> items[2]]

\* _get_auth_user_and_psw_from_header: value is None when it returns None
get_auth_user_and_psw_from_header(req) ==
    LET auth_header == req.authorization IN
    IF ~auth_header.present
    THEN [raised |-> None, value |-> "pair", user |-> "*", psw |-> None]
    ELSE IF auth_header.scheme # "Basic"
    THEN [raised |-> None, value |-> None, user |-> None, psw |-> None]
    ELSE decode_http_auth_password(auth_header.credentials)

\* os.path.relpath of a translated path
relpath(path) == IF path.node = <<>> THEN <<".">> ELSE join(path.node, "/")

\* str.startswith('..'), on the names the model uses
startswith_dotdot(path) == Head(path) \in {"..", "..x"}

\* a check_auth_impl that keeps the permission its caller names
required_perm_as_given(f, translated, perm) == perm

\* check_auth_impl, lines 320-321: a directory needs the list permission
required_perm(f, translated, perm) ==
    IF isdir(f, [translated EXCEPT !.slash = FALSE]) THEN "l" ELSE perm

\* check_auth_impl when its try block raised e: the except clause logs e and
\* calls self.wfile.write(str(e)); wfile takes bytes, so the call raises
\* TypeError, which leaves check_auth_impl
impl_except(e) ==
    [result |-> None, asked_perm |-> None, caught |-> e, raised |-> "TypeError"]

impl_return(result, asked_perm) ==
    [result |-> result, asked_perm |-> asked_perm, caught |-> None, raised |-> None]

check_auth_impl(f, ac, req, perm) ==
    IF cwd_gone(f) THEN impl_except("FileNotFoundError")
    ELSE LET translated == translate_path(req.path)
             path == relpath(translated)
         IN
         IF startswith_dotdot(path) THEN impl_return(False, None)
         ELSE LET perm2 == required_perm(f, translated, perm)
                  auth_result == get_auth_user_and_psw_from_header(req)
              IN
              IF auth_result.raised # None THEN impl_except(auth_result.raised)
              ELSE IF auth_result.value = None THEN impl_return(False, None)
              ELSE impl_return(check_path_for_perm(ac, path, perm2, auth_result.user,
                                                   auth_result.psw),
                               perm2)

\* the AuthConfig after check_auth_impl
check_auth_impl_self(f, ac, req, perm) ==
    IF cwd_gone(f) THEN ac
    ELSE LET translated == translate_path(req.path)
             path == relpath(translated)
         IN
         IF startswith_dotdot(path) THEN ac
         ELSE LET perm2 == required_perm(f, translated, perm)
                  auth_result == get_auth_user_and_psw_from_header(req)
              IN
              IF auth_result.raised # None \/ auth_result.value = None THEN ac
              ELSE check_path_for_perm_self(ac, path, perm2, auth_result.user,
                                            auth_result.psw)

\* do_AUTHHEAD
do_AUTHHEAD ==
    [Response(UNAUTHORIZED, [kind |-> "text", data |-> "Not authenticated\n"])
        EXCEPT !.www_authenticate = "Basic realm=\"Test\""]

\* an outcome with what check_auth_impl did
with_check(o, c) ==
    [o EXCEPT !.checked = c.result, !.asked_perm = c.asked_perm, !.caught = c.caught]

\* check_auth(perm), then the handler's `if ...: super().do_X()`: proceed is the
\* set of outcomes of super().do_X()
check_auth_then(f, ac, req, perm, proceed) ==
    LET c == check_auth_impl(f, ac, req, perm) IN
    IF c.raised # None THEN { with_check(Outcome(f, NoResponse, c.raised), c) }
    ELSE IF c.result # True THEN { with_check(Outcome(f, do_AUTHHEAD, None), c) }
    ELSE { with_check(o, c) : o \in proceed }

auth_do_HEAD(f, ac, req) == check_auth_then(f, ac, req, "r", do_HEAD(f, req))

auth_do_GET(f, ac, req) == check_auth_then(f, ac, req, "r", do_GET(f, req))

\* do_PUT that sends the challenge and goes on to super().do_PUT() all the same
auth_do_PUT_unchecked(f, ac, req) ==
    LET c == check_auth_impl(f, ac, req, "w") IN
    IF c.raised # None THEN { with_check(Outcome(f, NoResponse, c.raised), c) }
    ELSE IF c.result # True
    THEN { with_check([o EXCEPT !.resp = do_AUTHHEAD], c) : o \in do_PUT(f, req) }
    ELSE { with_check(o, c) : o \in do_PUT(f, req) }

auth_do_PUT(f, ac, req) == check_auth_then(f, ac, req, "w", do_PUT(f, req))

\* the permission the handler of a method passes to check_auth
perm_of(method) == IF method = "PUT" THEN "w" ELSE "r"

\* the server's auth_config after a request was handled: the handlers of GET,
\* HEAD and PUT of AuthSimpleHTTPFileServer reach it through check_auth, and
\* no other code of a handler does
auth_config_after(class, f, ac, req) ==
    IF class = "AuthSimpleHTTPFileServer" /\ req.method \in {"GET", "HEAD", "PUT"}
    THEN check_auth_impl_self(f, ac, req, perm_of(req.method))
    ELSE ac

\* a do_DELETE that asks for the write permission first
auth_do_DELETE_gated(f, ac, req) == check_auth_then(f, ac, req, "w", do_DELETE(f, req))

\* AuthSimpleHTTPFileServer defines no do_DELETE: it inherits
\* SimpleHTTPFileServer.do_DELETE
auth_do_DELETE(f, ac, req) == do_DELETE(f, req)

-----------------------------------------------------------------------------
(* One listener serving requests one after the other *)

ReqPaths == { <<"/">>,
              <<"/", "a">>,
              <<"/", "a", "/">>,
              <<"/", "a", "/", "b">>,
              <<"/", "a", "/", "..", "/", "b">>,
              <<"/", "..x">> }

\* what a PUT may carry; the files of the initial storage hold "y"
Contents == {"x"}

NoHeader == [present |-> FALSE, scheme |-> None, credentials |-> None]
Basic(b64, text) ==
    [present |-> TRUE, scheme |-> "Basic", credentials |-> [b64 |-> b64, text |-> text]]
AuthHeaders == { NoHeader,
                 [present |-> TRUE, scheme |-> "Digest", credentials |-> None],
                 Basic("ok", <<"u", ":", "p">>),
                 Basic("ok", <<"u", ":", "q">>),
                 Basic("ok", <<"v", ":", "p">>),
                 Basic("ok", <<"u">>),
                 Basic("ok", <<"w", ":", "p", ":", "q">>),
                 Basic("padding", <<>>) }

Request(method, path, authorization, content) ==
    [method |-> method, path |-> path, authorization |-> authorization,
     content |-> content]

\* the configurations the served policies are loaded from
HttpSources ==
    { [parse |-> "ok",
       doc |-> [paths |-> << [path |-> <<"/">>, user |-> "*", perms |-> {}],
                             [path |-> <<"/">>, user |-> "u", perms |-> {"r", "l"}],
                             [path |-> <<"/", "a">>, user |-> "u",
                              perms |-> {"r", "w", "l"}],
                             [path |-> <<"/">>, user |-> "w", perms |-> {"r", "l"}] >>,
                users |-> << [user |-> "u", psw |-> "p"],
                             [user |-> "w", psw |-> "p:q"] >>]],
      [parse |-> "ok",
       doc |-> [paths |-> << [path |-> <<"/", "a">>, user |-> "*", perms |-> {"r"}],
                             [path |-> <<"/", "a", "/", "b">>, user |-> "*",
                              perms |-> {"w", "l"}] >>,
                users |-> <<>>]] }

InitialStorage ==
    { (<<>> :> Dir),
      (<<>> :> Dir) @@ (<<"a">> :> Dir) @@ (<<"a", "b">> :> File("y"))
                    @@ (<<"b">> :> File("y")) }

\* ListenerThread.run: the handler class is chosen by auth_config
HttpInit ==
    /\ \/ /\ auth_config = None
          /\ handler_class = "SimpleHTTPFileServer"
       \/ /\ \E source \in HttpSources : auth_config = load_config(AuthConfig, source).ac
          /\ handler_class = "AuthSimpleHTTPFileServer"
    /\ fs \in InitialStorage
    /\ last = NoRequest
    /\ phase = "serving"
    /\ query = NoQuery
    /\ NoThreads
    /\ Started /\ NoCalls /\ NoInflight

\* the request is handled and the response recorded
Handled(req, o) ==
    /\ fs' = o.fs
    /\ last' = [req |-> req, resp |-> o.resp, checked |-> o.checked,
                asked_perm |-> o.asked_perm, caught |-> o.caught, raised |-> o.raised]
    /\ auth_config' = auth_config_after(handler_class, fs, auth_config, req)
    /\ UNCHANGED <<phase, query, handler_class, acceptVars, startVars, logVars,
                   calls, inflight>>

DoGET ==
    \E path \in ReqPaths, h \in AuthHeaders :
        LET req == Request("GET", path, h, None) IN
        \E o \in IF handler_class = "SimpleHTTPFileServer" THEN do_GET(fs, req)
                 ELSE auth_do_GET(fs, auth_config, req) : Handled(req, o)

DoHEAD ==
    \E path \in ReqPaths, h \in AuthHeaders :
        LET req == Request("HEAD", path, h, None) IN
        \E o \in IF handler_class = "SimpleHTTPFileServer" THEN do_HEAD(fs, req)
                 ELSE auth_do_HEAD(fs, auth_config, req) : Handled(req, o)

DoPUT ==
    \E path \in ReqPaths, h \in AuthHeaders, content \in Contents \cup {None} :
        LET req == Request("PUT", path, h, content) IN
        \E o \in IF handler_class = "SimpleHTTPFileServer" THEN do_PUT(fs, req)
                 ELSE auth_do_PUT(fs, auth_config, req) : Handled(req, o)

DoDELETE ==
    \E path \in ReqPaths, h \in AuthHeaders :
        LET req == Request("DELETE", path, h, None) IN
        \E o \in IF handler_class = "SimpleHTTPFileServer" THEN do_DELETE(fs, req)
                 ELSE auth_do_DELETE(fs, auth_config, req) : Handled(req, o)

HttpNext == DoGET \/ DoHEAD \/ DoPUT \/ DoDELETE

SpecHttp == HttpInit /\ [][HttpNext]_vars

-----------------------------------------------------------------------------
(* What the claims about the request handlers say *)

WithPolicy == handler_class = "AuthSimpleHTTPFileServer"

Challenge ==
    [status |-> UNAUTHORIZED, www_authenticate |-> "Basic realm=\"Test\"",
     location |-> None, body |-> [kind |-> "text", data |-> "Not authenticated\n"]]

\* C6: with an access policy, a GET, HEAD or PUT whose authorization check
\* returned False is answered 401 with the Basic challenge and the short
\* body, and the request leaves the storage as it was and sends neither a
\* file nor a listing.
C6_DenialStopsOperation ==
    [][ (/\ WithPolicy
         /\ last'.req.method \in {"GET", "HEAD", "PUT"}
         /\ last'.checked = False)
        => (/\ last'.resp = Challenge
            /\ last'.raised = None
            /\ fs' = fs) ]_vars

\* a PUT with a body that the policy refused: its target, under an existing
\* directory, was not created
C6_Witness ==
    /\ WithPolicy
    /\ last.req.method = "PUT" /\ last.req.content # None
    /\ last.checked = False /\ last.asked_perm = "w"
    /\ last.resp = Challenge
    /\ ~cwd_gone(fs)
    /\ LET t == translate_path(last.req.path) IN
          /\ ~t.slash
          /\ t.node \notin DOMAIN fs
          /\ isdir(fs, dirname(t))

\* the permission C7 names for the request just handled, from the storage
\* the request found
TargetIsDir == isdir(fs, [translate_path(last'.req.path) EXCEPT !.slash = FALSE])

\* C7 as stated: list for a GET or HEAD of a directory, read for a GET or HEAD
\* of anything else, write for every PUT.
C7_WriteForEveryPut ==
    [][ (/\ WithPolicy
         /\ last'.req.method \in {"GET", "HEAD", "PUT"}
         /\ last'.asked_perm # None)
        => last'.asked_perm = IF last'.req.method = "PUT" THEN "w"
                              ELSE IF TargetIsDir THEN "l" ELSE "r" ]_vars

\* C7: the permission the policy is asked about is list for a GET, HEAD or
\* PUT whose target is a directory, read for a GET or HEAD of anything else
\* and write for a PUT of anything else.
C7_RequiredPermission ==
    [][ (/\ WithPolicy
         /\ last'.req.method \in {"GET", "HEAD", "PUT"}
         /\ last'.asked_perm # None)
        => last'.asked_perm = IF TargetIsDir THEN "l"
                              ELSE IF last'.req.method = "PUT" THEN "w" ELSE "r" ]_vars

\* a PUT on a directory for which the policy was asked about list
C7_Witness ==
    /\ WithPolicy
    /\ last.req.method = "PUT"
    /\ last.asked_perm = "l"
    /\ isdir(fs, translate_path(last.req.path))
    /\ last.resp.status = METHOD_NOT_ALLOWED

\* C8: with an access policy, a DELETE is answered without the policy or the
\* Authorization header being looked at: it is never answered 401, and when
\* its target exists the answer is 200 and the target is gone.
C8_DeleteNotGated ==
    [][ (WithPolicy /\ last'.req.method = "DELETE")
        => (/\ last'.checked = None /\ last'.asked_perm = None /\ last'.caught = None
            /\ last'.resp.status # UNAUTHORIZED
            /\ exists(fs, translate_path(last'.req.path))
                  => (/\ last'.resp.status = OK
                      /\ translate_path(last'.req.path).node \notin DOMAIN fs')) ]_vars

\* a DELETE by a known user with a wrong password, to whom the policy refuses
\* everything, removed /a/b
C8_Witness ==
    /\ WithPolicy
    /\ last.req.method = "DELETE"
    /\ last.req.path = <<"/", "a", "/", "b">>
    /\ last.req.authorization = Basic("ok", <<"u", ":", "q">>)
    /\ "u" \in DOMAIN auth_config.users /\ auth_config.users["u"] # "q"
    /\ \A perm \in Perms :
          check_path_for_perm(auth_config, <<"a", "/", "b">>, perm, "u", "q") = False
    /\ last.resp.status = OK
    /\ <<"a">> \in DOMAIN fs /\ <<"a", "b">> \notin DOMAIN fs

\* C9: an exception raised inside check_auth_impl makes the check return
\* False: the client gets the 401 challenge and nothing else, no exception
\* leaves the handler, and the operation is not carried out.
C9_ExceptionsFailClosedAs401 ==
    (WithPolicy /\ last.caught # None)
        => (/\ last.checked = False
            /\ last.resp = Challenge
            /\ last.raised = None)

\* the credentials the last request sent as Basic, decoded from base64
SentText == last'.req.authorization.credentials.text
Colons(text) == Cardinality({ i \in DOMAIN text : text[i] = ":" })
ColonAt(text) == CHOOSE i \in DOMAIN text : text[i] = ":"
BeforeColon(text) == IF ColonAt(text) = 1 THEN "" ELSE text[ColonAt(text) - 1]
AfterColon(text) == IF ColonAt(text) = Len(text) THEN "" ELSE text[ColonAt(text) + 1]

\* the header of the request just handled is Basic with a value that decodes
\* from base64, and check_auth_impl got to it
BasicSent ==
    /\ WithPolicy
    /\ last'.req.method \in {"GET", "HEAD", "PUT"}
    /\ last'.req.authorization.present
    /\ last'.req.authorization.scheme = "Basic"
    /\ last'.req.authorization.credentials.b64 = "ok"
    /\ ~cwd_gone(fs)

\* C16: a decoded text with exactly one colon is taken as (text before the
\* colon, text after it), and the policy is asked about that user and that
\* password; a decoded text with no colon or with more than one does not
\* decode, and the request is answered 401 and not carried out.
C16_ExactlyOneColon ==
    [][ BasicSent =>
          IF Colons(SentText) = 1
          THEN last'.asked_perm # None =>
                  last'.checked =
                      check_path_for_perm(auth_config,
                                          relpath(translate_path(last'.req.path)),
                                          last'.asked_perm,
                                          BeforeColon(SentText), AfterColon(SentText))
          ELSE /\ last'.checked = False
               /\ last'.resp = Challenge
               /\ fs' = fs ]_vars

\* w, whose stored password is "p:q", sent w:p:q for a path the rules let w
\* read, and got the challenge
C16_Witness ==
    /\ WithPolicy
    /\ last.req.method = "GET"
    /\ last.req.path = <<"/", "b">> \/ last.req.path = <<"/", "a", "/", "..", "/", "b">>
    /\ last.req.authorization = Basic("ok", <<"w", ":", "p", ":", "q">>)
    /\ "w" \in DOMAIN auth_config.users /\ auth_config.users["w"] = "p:q"
    /\ check_path_for_perm(auth_config, <<"b">>, "r", "w", "p:q") = True
    /\ last.resp = Challenge
    /\ <<"b">> \in DOMAIN fs

\* C19: while the server serves, no request, whatever its method, its
\* credentials and its outcome, changes the AuthConfig: the tree, its nodes'
\* children and permission maps, and the users map stay as they were loaded.
C19_PolicyReadOnly ==
    [][ auth_config' = auth_config ]_vars

\* a GET was checked against the policy and let through for /a/b, for which
\* the tree has no node, and has none after it
C19_Witness ==
    /\ WithPolicy
    /\ last.req.method = "GET"
    /\ last.req.path = <<"/", "a", "/", "b">>
    /\ last.checked = True /\ last.asked_perm = "r"
    /\ HasNode(auth_config.root, <<"a">>)
    /\ ~HasNode(auth_config.root, <<"a", "b">>)
    /\ last.resp.status = OK

-----------------------------------------------------------------------------
(* The listener threads on the one listening socket *)

\* sock.listen(5)
Backlog == 5

Listeners == 1..NumThreads
Connections == 1..NumThreads

\* setup_and_start_http_server after create_socket: the socket listens and
\* no ListenerThread has been started
AcceptInit ==
    /\ threads = [w \in Listeners |-> "unstarted"]
    /\ request = [w \in Listeners |-> 0]
    /\ accept_queue = <<>>
    /\ conn = [c \in Connections |-> "unsent"]
    /\ handled = [c \in Connections |-> <<>>]
    /\ client = [c \in Connections |-> "sends"]
    /\ auth_config = None
    /\ handler_class = "SimpleHTTPFileServer"
    /\ phase = "serving"
    /\ query = NoQuery
    /\ fs = <<>>
    /\ last = NoRequest
    /\ Started /\ NoCalls /\ NoInflight

\* listener.start(), then ListenerThread.run up to serve_forever
StartListener(w) ==
    /\ threads[w] = "unstarted"
    /\ threads' = [threads EXCEPT ![w] = "select"]
    /\ UNCHANGED <<request, accept_queue, conn, handled, client, authVars, httpVars,
                 startVars, logVars, calls, inflight>>

\* a client's connection is established and waits on the listening socket
Connect(c) ==
    /\ conn[c] = "unsent"
    /\ Len(accept_queue) < Backlog
    /\ accept_queue' = Append(accept_queue, c)
    /\ conn' = [conn EXCEPT ![c] = "queued"]
    /\ UNCHANGED <<threads, request, handled, client, authVars, httpVars,
                 startVars, logVars, calls, inflight>>

\* serve_forever: the selector reports the listening socket readable
Select(w) ==
    /\ threads[w] = "select"
    /\ accept_queue # <<>>
    /\ threads' = [threads EXCEPT ![w] = "accept"]
    /\ UNCHANGED <<request, accept_queue, conn, handled, client, authVars, httpVars,
                 startVars, logVars, calls, inflight>>

\* an accept that returns the oldest waiting connection and leaves it waiting
AcceptPeek(w) ==
    /\ threads[w] = "accept"
    /\ accept_queue # <<>>
    /\ request' = [request EXCEPT ![w] = Head(accept_queue)]
    /\ conn' = [conn EXCEPT ![Head(accept_queue)] = "accepted"]
    /\ threads' = [threads EXCEPT ![w] = "handle"]
    /\ UNCHANGED <<accept_queue, handled, client, authVars, httpVars,
                 startVars, logVars, calls, inflight>>

\* serve_forever, get_request: socket.accept() on the shared socket blocks
\* until a connection waits, and takes the oldest one off the queue
Accept(w) ==
    /\ threads[w] = "accept"
    /\ accept_queue # <<>>
    /\ request' = [request EXCEPT ![w] = Head(accept_queue)]
    /\ accept_queue' = Tail(accept_queue)
    /\ conn' = [conn EXCEPT ![Head(accept_queue)] = "accepted"]
    /\ threads' = [threads EXCEPT ![w] = "handle"]
    /\ UNCHANGED <<handled, client, authVars, httpVars,
                 startVars, logVars, calls, inflight>>

\* a listener that gives up on a connection whose client sends nothing more
HandleConnectionTimeout(w) ==
    /\ threads[w] = "handle"
    /\ handled' = [handled EXCEPT ![request[w]] = Append(@, w)]
    /\ conn' = [conn EXCEPT ![request[w]] = "closed"]
    /\ request' = [request EXCEPT ![w] = 0]
    /\ threads' = [threads EXCEPT ![w] = "select"]
    /\ UNCHANGED <<accept_queue, client, authVars, httpVars,
                 startVars, logVars, calls, inflight>>

\* serve_forever, process_request: the request of the accepted connection is
\* handled and the connection shut down, on the listener's own thread.  The
\* handler reads the request with blocking reads and no timeout is set on
\* the socket, so it gets on only when the client sends the whole request
HandleConnection(w) ==
    /\ threads[w] = "handle"
    /\ client[request[w]] = "sends"
    /\ handled' = [handled EXCEPT ![request[w]] = Append(@, w)]
    /\ conn' = [conn EXCEPT ![request[w]] = "closed"]
    /\ request' = [request EXCEPT ![w] = 0]
    /\ threads' = [threads EXCEPT ![w] = "select"]
    /\ UNCHANGED <<accept_queue, client, authVars, httpVars,
                 startVars, logVars, calls, inflight>>

AcceptNext ==
    \/ \E w \in Listeners : StartListener(w)
    \/ \E c \in Connections : Connect(c)
    \/ \E w \in Listeners : Select(w)
    \/ \E w \in Listeners : Accept(w)
    \/ \E w \in Listeners : HandleConnection(w)

SpecAccept == AcceptInit /\ [][AcceptNext]_vars

\* every thread that can take a step gets to take it, and every client
\* gets to connect
AcceptFairness ==
    /\ \A w \in Listeners : WF_vars(StartListener(w))
    /\ \A w \in Listeners : WF_vars(Select(w))
    /\ \A w \in Listeners : WF_vars(Accept(w))
    /\ \A w \in Listeners : WF_vars(HandleConnection(w))
    /\ \A c \in Connections : WF_vars(Connect(c))

SpecAcceptFair == SpecAccept /\ AcceptFairness

\* the listeners that hold connection c or have handled it
HoldersOf(c) ==
    { w \in Listeners : request[w] = c } \cup { handled[c][i] : i \in DOMAIN handled[c] }

Served(c) == conn[c] = "closed" /\ Len(handled[c]) = 1

\* C10: with T listener threads on the one socket and T connections, every
\* connection is accepted by one listener only, which handles it once, and
\* every connection is in the end handled to completion.
C10_ConcurrentAccept ==
    /\ [](\A c \in Connections :
             /\ Cardinality(HoldersOf(c)) <= 1
             /\ Len(handled[c]) <= 1
             /\ Cardinality({ w \in Listeners : request[w] = c }) + Len(handled[c]) <= 1)
    /\ \A c \in Connections : <>[]Served(c)

\* every connection has been served, each by another listener
C10_Witness ==
    /\ \A c \in Connections : Served(c)
    /\ Cardinality({ handled[c][1] : c \in Connections }) = NumThreads

-----------------------------------------------------------------------------
(* The start of the process: setup_and_start_http_server on the main thread, *)
(* the PrintThread that setup_log starts, and the lines the handlers log     *)

\* --threads, by default
DefaultThreads == 2

MainThread == 0

\* a log line: the thread that wrote it (MainThread or a ListenerThread) and
\* what it says
Line(by, text) == [by |-> by, text |-> text]

\* what the handler of one request logs with --log_headers: the headers
\* (log_headers_if_needed), then the request line (send_response, log_request)
HandlerLines == <<"headers", "request">>

\* FileQueueWrapper.write: queue.put(data)
queue_put(q, data) == Append(q, data)

\* log_file.write(data) on the FileQueueWrapper; calls keeps the lines in
\* the order of the calls
LogFileWrite(data) ==
    /\ log_queue' = queue_put(log_queue, data)
    /\ calls' = Append(calls, data)

\* the lines thread `by` has put on the queue so far
LinesOf(by) == Len(SelectSeq(calls, LAMBDA l : l.by = by))

\* the command lines and configuration files the process is started with
StartupConfigs ==
    { ConfigFile(FALSE, FALSE, NoSource), ConfigFile(TRUE, FALSE, NoSource) }
    \cup { ConfigFile(TRUE, TRUE, source) : source \in HttpSources \cup BadSources }

StartupInit ==
    /\ main = "setup_log"
    /\ sock = "none"
    /\ process = Running
    /\ config_file \in StartupConfigs
    /\ log_thread = [started |-> FALSE, item |-> <<>>]
    /\ log_queue = <<>>
    /\ sink = <<>>
    /\ threads = [w \in 1..DefaultThreads |-> "unstarted"]
    /\ request = [w \in 1..DefaultThreads |-> 0]
    /\ accept_queue = <<>>
    /\ conn = <<>>
    /\ handled = <<>>
    /\ client = <<>>
    /\ auth_config = None
    /\ phase = "init"
    /\ query = NoQuery
    /\ handler_class = None
    /\ fs = (<<>> :> Dir)
    /\ last = NoRequest
    /\ NoCalls /\ NoInflight

\* line 441, setup_log: the PrintThread is started as a daemon thread
SetupLog ==
    /\ process = Running /\ main = "setup_log"
    /\ log_thread' = [log_thread EXCEPT !.started = TRUE]
    /\ main' = "log_hosting"
    /\ UNCHANGED <<sock, process, config_file, log_queue, sink,
                   authVars, httpVars, acceptVars, calls, inflight>>

\* lines 442-443: the first line is logged, then os.chdir(storage_path)
LogHosting ==
    /\ process = Running /\ main = "log_hosting"
    /\ LogFileWrite(Line(MainThread, "hosting server from"))
    /\ main' = "create_socket"
    /\ UNCHANGED <<sock, process, config_file, log_thread, sink,
                   authVars, httpVars, acceptVars, inflight>>

\* line 445, create_socket: socket(), bind() and listen()
CreateSocket ==
    /\ process = Running /\ main = "create_socket"
    /\ sock' = "listening"
    /\ main' = "check_config"
    /\ UNCHANGED <<process, config_file, logVars,
                   authVars, httpVars, acceptVars, calls, inflight>>

\* a check of the configuration path that logs the missing file and goes on
\* without a policy
CheckConfigNoExit ==
    /\ process = Running /\ main = "check_config"
    /\ IF ~config_file.given
       THEN /\ main' = "log_listening"
            /\ UNCHANGED <<log_queue, calls>>
       ELSE IF ~config_file.exists
       THEN /\ LogFileWrite(Line(MainThread, "No such file"))
            /\ main' = "log_listening"
       ELSE /\ LogFileWrite(Line(MainThread, "Setting up access restrictions"))
            /\ main' = "load_config"
    /\ UNCHANGED <<sock, process, config_file, log_thread, sink,
                   authVars, httpVars, acceptVars, inflight>>

\* lines 447-452: without --access_config there is no policy; with a path
\* where no file is, the line is logged and the main thread goes to
\* sys.exit(1); else the policy is announced
CheckConfig ==
    /\ process = Running /\ main = "check_config"
    /\ IF ~config_file.given
       THEN /\ main' = "log_listening"
            /\ UNCHANGED <<log_queue, calls>>
       ELSE IF ~config_file.exists
       THEN /\ LogFileWrite(Line(MainThread, "No such file"))
            /\ main' = "sys_exit"
       ELSE /\ LogFileWrite(Line(MainThread, "Setting up access restrictions"))
            /\ main' = "load_config"
    /\ UNCHANGED <<sock, process, config_file, log_thread, sink,
                   authVars, httpVars, acceptVars, inflight>>

\* line 451, sys.exit(1): the main thread ends and with it the process; the
\* PrintThread is a daemon thread, is not joined, and ends where it is
SysExit ==
    /\ process = Running /\ main = "sys_exit"
    /\ process' = Exited(1)
    /\ main' = "exited"
    /\ UNCHANGED <<sock, config_file, logVars,
                   authVars, httpVars, acceptVars, calls, inflight>>

\* lines 453-454: AuthConfig() and load_config; an exception that leaves
\* load_config leaves the main thread too, and the process ends with status 1
MainLoadConfig ==
    /\ process = Running /\ main = "load_config"
    /\ LET r == load_config(AuthConfig, config_file.source) IN
       /\ IF r.raised = None
          THEN /\ main' = "log_listening"
               /\ phase' = "serving"
               /\ UNCHANGED process
          ELSE /\ main' = "exited"
               /\ phase' = "crashed"
               /\ process' = Exited(1)
       /\ auth_config' = r.ac
    /\ UNCHANGED <<query, sock, config_file, logVars,
                   httpVars, acceptVars, calls, inflight>>

\* lines 456-457
LogListening ==
    /\ process = Running /\ main = "log_listening"
    /\ LogFileWrite(Line(MainThread, "listening on"))
    /\ main' = "start_threads"
    /\ UNCHANGED <<sock, process, config_file, log_thread, sink,
                   authVars, httpVars, acceptVars, inflight>>

\* lines 460-465 and ListenerThread.run: the next ListenerThread is started,
\* makes its server with the handler class that goes with auth_config and
\* enters serve_forever
StartThread(w) ==
    /\ process = Running /\ main = "start_threads"
    /\ threads[w] = "unstarted"
    /\ \A v \in DOMAIN threads : v < w => threads[v] # "unstarted"
    /\ threads' = [threads EXCEPT ![w] = "select"]
    /\ handler_class' = IF config_file.given THEN "AuthSimpleHTTPFileServer"
                        ELSE "SimpleHTTPFileServer"
    /\ UNCHANGED <<request, accept_queue, conn, handled, client, fs, last,
                   authVars, startVars, logVars, calls, inflight>>

\* lines 468-469: the main thread waits for the listeners, which never end
JoinThreads ==
    /\ process = Running /\ main = "start_threads"
    /\ \A w \in DOMAIN threads : threads[w] # "unstarted"
    /\ main' = "join"
    /\ UNCHANGED <<sock, process, config_file, logVars,
                   authVars, httpVars, acceptVars, calls, inflight>>

\* SimpleHTTPFileServer.log_write on the thread of listener w: server.log_file
\* is the FileQueueWrapper that ListenerThread.run set, so the line goes to
\* the queue
HandlerLog(w) ==
    /\ process = Running
    /\ threads[w] # "unstarted"
    /\ LinesOf(w) < Len(HandlerLines)
    /\ LogFileWrite(Line(w, HandlerLines[LinesOf(w) + 1]))
    /\ UNCHANGED <<log_thread, sink, startVars,
                   authVars, httpVars, acceptVars, inflight>>

\* PrintThread.run, self.queue.get(): blocks until a line is there
QueueGet ==
    /\ process = Running
    /\ log_thread.started /\ log_thread.item = <<>>
    /\ log_queue # <<>>
    /\ log_thread' = [log_thread EXCEPT !.item = <<Head(log_queue)>>]
    /\ log_queue' = Tail(log_queue)
    /\ UNCHANGED <<sink, startVars, authVars, httpVars, acceptVars, calls, inflight>>

\* PrintThread.run, self.log_file.write(...) and task_done()
SinkWrite ==
    /\ process = Running
    /\ log_thread.item # <<>>
    /\ sink' = sink \o log_thread.item
    /\ log_thread' = [log_thread EXCEPT !.item = <<>>]
    /\ UNCHANGED <<log_queue, startVars, authVars, httpVars, acceptVars, calls, inflight>>

StartupNext ==
    \/ SetupLog
    \/ LogHosting
    \/ CreateSocket
    \/ CheckConfig
    \/ SysExit
    \/ MainLoadConfig
    \/ LogListening
    \/ \E w \in DOMAIN threads : StartThread(w)
    \/ JoinThreads
    \/ \E w \in DOMAIN threads : HandlerLog(w)
    \/ QueueGet
    \/ SinkWrite

SpecStartup == StartupInit /\ [][StartupNext]_vars

\* the starts without a policy to load: no --access_config, or a path where
\* no file is
LogInit == StartupInit /\ ~(config_file.given /\ config_file.exists)

LogNext ==
    \/ SetupLog
    \/ LogHosting
    \/ CreateSocket
    \/ CheckConfig
    \/ SysExit
    \/ LogListening
    \/ \E w \in DOMAIN threads : StartThread(w)
    \/ JoinThreads
    \/ \E w \in DOMAIN threads : HandlerLog(w)
    \/ QueueGet
    \/ SinkWrite

\* the main thread and the PrintThread are threads of the interpreter and
\* are scheduled while they can run; when a ListenerThread logs depends on
\* its clients
LogFairness ==
    /\ WF_vars(SetupLog) /\ WF_vars(LogHosting) /\ WF_vars(CreateSocket)
    /\ WF_vars(CheckConfig) /\ WF_vars(SysExit)
    /\ WF_vars(LogListening) /\ WF_vars(JoinThreads)
    /\ \A w \in 1..DefaultThreads : WF_vars(StartThread(w))
    /\ WF_vars(QueueGet) /\ WF_vars(SinkWrite)

SpecLog == LogInit /\ [][LogNext]_vars /\ LogFairness

-----------------------------------------------------------------------------
(* What the claims about the start of the process say *)

MissingConfig == config_file.given /\ ~config_file.exists

\* the main thread is past the check of the configuration path
PastConfigCheck == main \in {"load_config", "log_listening", "start_threads", "join", "exited"}

NoListenerStarted == \A w \in DOMAIN threads : threads[w] = "unstarted"

\* C11 as stated: with a configuration path where no file is, the process
\* exits with a non-zero status, and up to that exit no listening socket was
\* created or bound and no ListenerThread was started.
C11_ExitBeforeAnySocket ==
    MissingConfig =>
        /\ sock = "none"
        /\ NoListenerStarted
        /\ PastConfigCheck => (process.state = "exited" /\ process.status # 0)

\* C11: with a configuration path where no file is, the process exits with a
\* non-zero status at the check of the path; no ListenerThread was started
\* and no policy loaded by then, but the listening socket was created, bound
\* and set listening before the check.
C11_ExitAfterSocket ==
    MissingConfig =>
        /\ NoListenerStarted
        /\ phase = "init"
        /\ main \in {"check_config", "sys_exit"} => sock = "listening"
        /\ PastConfigCheck =>
              (process.state = "exited" /\ process.status # 0 /\ sock = "listening")

\* the process has exited on the missing file, its socket listening
C11_Witness ==
    /\ MissingConfig
    /\ process = Exited(1)
    /\ main = "exited"
    /\ sock = "listening"
    /\ NoListenerStarted

\* the main thread is past load_config, or load_config ended it
PastLoadConfig ==
    \/ main \in {"log_listening", "start_threads", "join"}
    \/ main = "exited" /\ phase = "crashed"

\* C12: load_config of a source that cannot be read, is no JSON, lacks
\* 'paths' or 'users' or has an entry with a missing field returns without
\* raising and leaves a policy with no rule and no user, and the startup goes
\* on to serve.
C12_MalformedConfigFallsBack ==
    (/\ config_file.given /\ config_file.exists
     /\ config_file.source \in BadSources
     /\ PastLoadConfig)
        => (/\ process = Running
            /\ phase = "serving"
            /\ auth_config = AuthConfig)

\* the most lines the main thread and the ListenerThreads put on the queue
MaxLines == 3 + DefaultThreads * Len(HandlerLines)

\* the lines written are the first lines put, in the order they were put
SinkInOrder == IsPrefix(sink, calls)

\* every line is put on the one queue, and is there until the PrintThread
\* takes it
AllOnQueue == calls = sink \o log_thread.item \o log_queue

\* the sink changes only by the one line the PrintThread holds
OneWriter ==
    sink' # sink =>
        /\ log_thread.item # <<>>
        /\ sink' = sink \o log_thread.item
        /\ log_thread'.item = <<>>

\* the n-th line put is written in the end
EveryLineWritten == \A n \in 1..MaxLines : (Len(calls) >= n) ~> (Len(sink) >= n)

\* the part of C20 that the code keeps: one queue, one writer, the order of
\* the puts, no line twice
C20_Serialised == [](SinkInOrder /\ AllOnQueue) /\ [][OneWriter]_vars

\* C20: every line logged by the main thread or by a ListenerThread is put
\* on the one queue and is written to the sink by the PrintThread only, each
\* line exactly once and in the order of the puts, one write at a time.
C20_LogSerialisation ==
    /\ [](SinkInOrder /\ AllOnQueue)
    /\ [][OneWriter]_vars
    /\ EveryLineWritten

-----------------------------------------------------------------------------
(* Files are PUT under the empty storage directory, and the directory is     *)
(* listed; no other request is made                                          *)

\* the file paths that are PUT
ListPaths == { <<"/", "b">>,
               <<"/", "a", "/", "b">>,
               <<"/", "a", "/", "c">>,
               <<"/", "c", "/", "a">>,
               <<"/", "c", "/", "b">> }

ListingInit ==
    /\ auth_config = None
    /\ handler_class = "SimpleHTTPFileServer"
    /\ fs = (<<>> :> Dir)
    /\ last = NoRequest
    /\ phase = "serving"
    /\ query = NoQuery
    /\ NoThreads
    /\ Started /\ NoCalls /\ NoInflight

\* a PUT of a path that has not been PUT before, answered 200
PutFile ==
    \E path \in ListPaths, content \in Contents :
        LET req == Request("PUT", path, NoHeader, content) IN
        /\ translate_path(path).node \notin DOMAIN fs
        /\ \E o \in do_PUT(fs, req) :
              /\ o.resp.status = OK
              /\ Handled(req, o)

\* a GET of the storage directory, with the trailing slash
GetDirectory ==
    LET req == Request("GET", <<"/">>, NoHeader, None) IN
    \E o \in do_GET(fs, req) : Handled(req, o)

ListingNext == PutFile \/ GetDirectory

SpecListing == ListingInit /\ [][ListingNext]_vars

\* the order of the names used, as str compares them
NameRank == ("a" :> 1) @@ ("b" :> 2) @@ ("c" :> 3)

\* whether the relative path of node m sorts before that of node n
RECURSIVE PathLess(_, _)
PathLess(m, n) ==
    IF m = <<>> THEN n # <<>>
    ELSE IF n = <<>> THEN FALSE
    ELSE IF Head(m) # Head(n) THEN NameRank[Head(m)] < NameRank[Head(n)]
    ELSE PathLess(Tail(m), Tail(n))

\* the regular files of the storage, in sorted order
SortedFiles ==
    LET files == { n \in DOMAIN fs : fs[n].kind = "file" } IN
    CHOOSE s \in orderings(files) :
        \A i, j \in DOMAIN s : i < j => PathLess(s[i], s[j])

\* an element of a listing as a relative path, a leading "./" taken off
RelativePath(line) ==
    IF Len(line) >= 2 /\ line[1] = "." /\ line[2] = "/"
    THEN SubSeq(line, 3, Len(line)) ELSE line

\* C13: after N PUTs of distinct paths under the empty storage directory, a
\* GET of the directory is answered 200 with the array of exactly those N
\* relative paths, each once, in sorted order, and the empty array for N = 0.
C13_ListingRoundTrip ==
    last.req.method = "GET" =>
        /\ last.resp.status = OK
        /\ last.resp.body.kind = "listing"
        /\ Len(last.resp.body.data) = Len(SortedFiles)
        /\ \A i \in DOMAIN SortedFiles :
              RelativePath(last.resp.body.data[i]) = join(SortedFiles[i], "/")

-----------------------------------------------------------------------------
(* The policy asked about paths that are not in the form os.path.relpath     *)
(* gives them                                                                *)

PathsAsWritten == { <<"/", "a", "/", "b">>,
                    <<"a", "/", "/", "b">>,
                    <<"a", "/", ".", "/", "b">>,
                    <<"a", "/", "b">>,
                    <<"/", "a", "/", "x">>,
                    <<"a", "/", "x">> }

CheckPathAsWritten == CheckPathIn(PathsAsWritten)

AuthPathsNext ==
    \/ LoadConfig
    \/ CheckPathAsWritten

SpecAuthPaths == AuthInit /\ [][AuthPathsNext]_vars

\* the path with the segments add_path_config discards taken out
Normalised(path) ==
    join(SelectSeq(path, LAMBDA t : t \notin {"/", ".", ".."}), "/")

\* C14 as stated: the query path is normalised as rule paths are, so the
\* answer is the one the normalised path gets: '/a/b', 'a//b', 'a/./b' and
\* 'a/b' are answered alike, and a rule at /a applies to '/a/x'.
C14_QueryPathNormalised ==
    phase = "answered" =>
        query.result = check_path_for_perm(auth_config, Normalised(query.path),
                                           query.perm, query.user, query.psw)

\* the segments of the last query before its first '', '.' or '..' segment
RECURSIVE LeadingNames(_)
LeadingNames(items) ==
    IF items = <<>> \/ Head(items) \in {"", ".", ".."} THEN <<>>
    ELSE <<Head(items)>> \o LeadingNames(Tail(items))

\* how many of segs, from node p on, name existing nodes one under the other
RECURSIVE Depth(_, _)
Depth(p, segs) ==
    IF segs = <<>> \/ Head(segs) \notin DOMAIN p.children THEN 0
    ELSE 1 + Depth(p.children[Head(segs)], Tail(segs))

\* C14: check_path_for_perm walks the '/'-split segments of the query path as
\* they are and stops at the first that names no child; no node is named '',
\* '.' or '..', so the nodes it visits are the root and those named by the
\* segments before the first such segment, and the answer is the one the
\* path cut there gets.
C14_QueryPathAsGiven ==
    (phase = "answered" /\ Accepted) =>
        LET leading == LeadingNames(QueryItems) IN
        /\ Len(query.checked) = 1 + Depth(auth_config.root, leading)
        /\ query.result = check_path_for_perm(auth_config, join(leading, "/"),
                                              query.perm, query.user, query.psw)

\* '/a/b' is answered by the root alone, against the rule at /a/b
C14_Witness ==
    /\ phase = "answered" /\ Accepted
    /\ query.path = <<"/", "a", "/", "b">>
    /\ HasNode(auth_config.root, <<"a", "b">>)
    /\ Len(query.checked) = 1
    /\ query.result = True
    /\ check_path_for_perm(auth_config, <<"a", "/", "b">>, query.perm,
                           query.user, query.psw) = False

-----------------------------------------------------------------------------
(* Rules added one call of add_path_config after the other *)

AddPaths == { <<"/">>,
              <<"/", "a">>,
              <<"a", "/", ".", "/", "b">>,
              <<"/", "a", "/", "..", "/", "b", "/">>,
              <<"/", "a", "/", "b", "/", "c">> }
AddUsers == {"*", "u"}
AddPerms == { {}, {"r"}, {"w", "l"} }

RulesInit ==
    /\ auth_config = AuthConfig
    /\ calls = <<>>
    /\ phase = "init"
    /\ query = NoQuery
    /\ handler_class = None
    /\ fs = <<>>
    /\ last = NoRequest
    /\ NoThreads
    /\ Started /\ NoInflight

\* auth_config.add_path_config(path, user, perms)
AddPathConfig ==
    /\ Len(calls) < MaxRules
    /\ \E path \in AddPaths, user \in AddUsers, perms \in AddPerms :
          /\ auth_config' = add_path_config(auth_config, path, user, perms)
          /\ calls' = Append(calls, [path |-> path, user |-> user, perms |-> perms])
    /\ UNCHANGED <<phase, query, httpVars, acceptVars, startVars, logVars, inflight>>

RulesNext == AddPathConfig

SpecRules == RulesInit /\ [][RulesNext]_vars

\* the node a rule path names: its segments other than '', '.' and '..'
NodeNamed(path) == SelectSeq(path, LAMBDA t : t \notin {"/", ".", ".."})

\* every node a call can name or pass
RuleNodes ==
    UNION { { SubSeq(NodeNamed(path), 1, k) : k \in 0..Len(NodeNamed(path)) } :
            path \in AddPaths }

\* what the tree under root holds for user at node n
Entry(root, n, user) ==
    IF HasNode(root, n) /\ user \in DOMAIN NodeAt(root, n).perms
    THEN [set |-> TRUE, perms |-> NodeAt(root, n).perms[user]]
    ELSE [set |-> FALSE, perms |-> {}]

\* the calls made so far that name node n with user
CallsFor(n, user) ==
    { i \in DOMAIN calls : NodeNamed(calls[i].path) = n /\ calls[i].user = user }

\* C15: after any sequence of add_path_config calls, what is stored for a
\* node and a user is the set of the last call that named that node with
\* that user, and nothing where no call did; a call leaves every other entry
\* as it was, and the call just made, made again, changes nothing.
C15_LastWriteWins ==
    /\ [](\A n \in RuleNodes, user \in AddUsers :
             LET is == CallsFor(n, user) IN
             IF is = {} THEN ~Entry(auth_config.root, n, user).set
             ELSE LET i == CHOOSE x \in is : \A y \in is : y <= x IN
                  Entry(auth_config.root, n, user) = [set |-> TRUE, perms |-> calls[i].perms])
    /\ [][ calls' # calls =>
             LET e == calls'[Len(calls')] IN
             /\ \A n \in RuleNodes, user \in AddUsers :
                   (n # NodeNamed(e.path) \/ user # e.user) =>
                       Entry(auth_config'.root, n, user) = Entry(auth_config.root, n, user)
             /\ auth_config'.users = auth_config.users
             /\ (calls # <<>> /\ e = calls[Len(calls)]) => auth_config' = auth_config ]_vars

\* /a/b got {w, l} for u under one spelling and {r} under another: {r} is
\* what is stored
C15_Witness ==
    /\ Len(calls) = 2
    /\ calls[1] = [path |-> <<"a", "/", ".", "/", "b">>, user |-> "u", perms |-> {"w", "l"}]
    /\ calls[2] = [path |-> <<"/", "a", "/", "..", "/", "b", "/">>, user |-> "u",
                   perms |-> {"r"}]
    /\ auth_config.root.children["a"].children["b"].perms = ("u" :> {"r"})

-----------------------------------------------------------------------------
(* Two listener threads handling requests on the same storage: a handler of  *)
(* AuthSimpleHTTPFileServer first runs check_auth and then, in a later step  *)
(* of its thread, super().do_X(); nothing is locked in between               *)

RacePaths == { <<"/", "a", "/", "b">>,
               <<"/", "a", "/", "b", "/">>,
               <<"/", "a", "/", "..", "/", "b">> }
RaceHeaders == { NoHeader, Basic("ok", <<"u", ":", "p">>) }

\* a handler that is not in the middle of a request
Idle == [pc |-> "idle", req |-> NoRequest.req, asked_perm |-> None, was_dir |-> FALSE]

\* super().do_X() of a method
super_do(f, req) ==
    IF req.method = "GET" THEN do_GET(f, req)
    ELSE IF req.method = "HEAD" THEN do_HEAD(f, req)
    ELSE do_PUT(f, req)

RaceInit ==
    /\ \E source \in HttpSources : auth_config = load_config(AuthConfig, source).ac
    /\ handler_class = "AuthSimpleHTTPFileServer"
    /\ fs = (<<>> :> Dir) @@ (<<"a">> :> Dir) @@ (<<"a", "b">> :> Dir) @@ (<<"b">> :> Dir)
    /\ last = NoRequest
    /\ phase = "serving"
    /\ query = NoQuery
    /\ threads = [w \in 1..DefaultThreads |-> "handle"]
    /\ request = [w \in 1..DefaultThreads |-> 0]
    /\ accept_queue = <<>>
    /\ conn = <<>>
    /\ handled = <<>>
    /\ client = <<>>
    /\ inflight = [w \in 1..DefaultThreads |-> Idle]
    /\ Started /\ NoCalls

RaceRequests ==
    { Request(method, path, h, IF method = "PUT" THEN "x" ELSE None) :
        method \in {"GET", "PUT"}, path \in RacePaths, h \in RaceHeaders }

\* do_GET or do_PUT of listener w up to the return of check_auth, when it
\* returns True: the handler goes on to super().do_X()
CheckAuth(w) ==
    /\ inflight[w].pc = "idle"
    /\ \E req \in RaceRequests :
          LET c == check_auth_impl(fs, auth_config, req, perm_of(req.method)) IN
          /\ c.raised = None /\ c.result = True
          /\ inflight' = [inflight EXCEPT ![w] =
                [pc |-> "checked", req |-> req, asked_perm |-> c.asked_perm,
                 was_dir |-> isdir(fs, [translate_path(req.path) EXCEPT !.slash = FALSE])]]
          /\ auth_config' = auth_config_after(handler_class, fs, auth_config, req)
    /\ UNCHANGED <<phase, query, httpVars, acceptVars, startVars, logVars, calls>>

\* do_GET or do_PUT of listener w when check_auth does not return True: the
\* challenge is sent, or the exception leaves the handler
Refuse(w) ==
    /\ inflight[w].pc = "idle"
    /\ \E req \in RaceRequests :
          \E o \in check_auth_then(fs, auth_config, req, perm_of(req.method), {}) :
              Handled(req, o)

\* super().do_GET() or super().do_PUT() of listener w, on the storage as it
\* is by now
Execute(w) ==
    /\ inflight[w].pc = "checked"
    /\ \E o \in super_do(fs, inflight[w].req) :
          /\ fs' = o.fs
          /\ last' = [req |-> inflight[w].req, resp |-> o.resp, checked |-> True,
                      asked_perm |-> inflight[w].asked_perm, caught |-> None,
                      raised |-> o.raised]
    /\ inflight' = [inflight EXCEPT ![w] = Idle]
    /\ UNCHANGED <<authVars, handler_class, acceptVars, startVars, logVars, calls>>

\* do_DELETE of listener w
Delete(w) ==
    /\ inflight[w].pc = "idle"
    /\ \E path \in RacePaths :
          LET req == Request("DELETE", path, NoHeader, None) IN
          \E o \in auth_do_DELETE(fs, auth_config, req) : Handled(req, o)

RaceNext ==
    \/ \E w \in DOMAIN inflight : CheckAuth(w)
    \/ \E w \in DOMAIN inflight : Refuse(w)
    \/ \E w \in DOMAIN inflight : Execute(w)
    \/ \E w \in DOMAIN inflight : Delete(w)

SpecRace == RaceInit /\ [][RaceNext]_vars

\* whether the policy allows perm to the credential of req on its path
Allows(req, perm) ==
    LET a == get_auth_user_and_psw_from_header(req) IN
    /\ a.raised = None /\ a.value # None
    /\ check_path_for_perm(auth_config, relpath(translate_path(req.path)), perm,
                           a.user, a.psw) = True

\* C17: whatever other requests are handled in between, a PUT writes its file
\* only if the policy allows write to its credential on its path, a GET sends
\* a file only if it allows read and a listing only if it allows list, and
\* the target is a directory when the operation runs exactly if it was one
\* when the permission was chosen.
C17_NoCheckThenActGap ==
    [][ \A w \in DOMAIN inflight :
          (inflight[w].pc = "checked" /\ inflight'[w].pc = "idle") =>
              LET req == inflight[w].req IN
              /\ (req.method = "PUT" /\ last'.resp.status = OK) => Allows(req, "w")
              /\ (req.method = "GET" /\ last'.resp.body.kind = "file") => Allows(req, "r")
              /\ (req.method = "GET" /\ last'.resp.body.kind = "listing")
                    => Allows(req, "l")
              /\ inflight[w].was_dir =
                    isdir(fs, [translate_path(req.path) EXCEPT !.slash = FALSE]) ]_vars

-----------------------------------------------------------------------------
(* The listener threads with clients that may stall: one connection more     *)
(* than there are listeners, and any of the clients may never send its       *)
(* request to the end                                                        *)

StallConnections == 1..(NumThreads + 1)

\* which clients stall: the first k, for every k (the connections arrive in
\* any order, so which ones they are makes no difference)
StallPatterns ==
    { [c \in StallConnections |-> IF c <= k THEN "stalls" ELSE "sends"] :
        k \in 0..(NumThreads + 1) }

StallInit ==
    /\ threads = [w \in Listeners |-> "unstarted"]
    /\ request = [w \in Listeners |-> 0]
    /\ accept_queue = <<>>
    /\ conn = [c \in StallConnections |-> "unsent"]
    /\ handled = [c \in StallConnections |-> <<>>]
    /\ client \in StallPatterns
    /\ auth_config = None
    /\ handler_class = "SimpleHTTPFileServer"
    /\ phase = "serving"
    /\ query = NoQuery
    /\ fs = <<>>
    /\ last = NoRequest
    /\ Started /\ NoCalls /\ NoInflight

StallNext ==
    \/ \E w \in Listeners : StartListener(w)
    \/ \E c \in StallConnections : Connect(c)
    \/ \E w \in Listeners : Select(w)
    \/ \E w \in Listeners : Accept(w)
    \/ \E w \in Listeners : HandleConnection(w)

SpecStall == StallInit /\ [][StallNext]_vars

\* listener w is in the handler of a connection whose client has stalled
Stuck(w) == threads[w] = "handle" /\ client[request[w]] = "stalls"

AllStuck == \A w \in Listeners : Stuck(w)

Waiting(c) == conn[c] \in {"unsent", "queued"}

\* C18: a listener in the handler of a stalled connection stays there, with
\* that connection, in every step; and once every listener is so, a
\* connection that has not been accepted stays unaccepted and unserved.
C18_StalledWorkerNeverReturns ==
    [][ /\ \A w \in Listeners :
              Stuck(w) => (/\ threads'[w] = "handle"
                           /\ request'[w] = request[w]
                           /\ conn'[request[w]] = "accepted")
        /\ AllStuck => \A c \in StallConnections :
                          Waiting(c) => (Waiting(c)' /\ handled'[c] = <<>>) ]_vars

\* every listener is held by a stalled client while a client that would
\* send its request waits on the listening socket
C18_Witness ==
    /\ AllStuck
    /\ \E c \in StallConnections :
          /\ conn[c] = "queued" /\ client[c] = "sends"
          /\ accept_queue = <<c>>
    /\ \E c \in StallConnections : conn[c] = "accepted" /\ handled[c] = <<>>

====
